---- MODULE Spec2Model ----
(***************************************************************************)
(* A model of picogreen_analysis_no-test-cases_2.1.py: the row lookup      *)
(* (find_row), the blank subtraction (subtract_blank), the validation of   *)
(* two series (clean_two_lsts), the least-squares fit                      *)
(* (calculate_linear_equation) and the main pipeline with its              *)
(* back-calculation of the sample concentration.                           *)
(*                                                                         *)
(* Python floats are IEEE-754 binary64 values.  They are modelled as       *)
(* records [s, m, e] standing for s * m * 2^e with s in {1, -1} and m a    *)
(* natural number of exactly 53 bits (or zero), and every arithmetic       *)
(* operation of the code rounds its exact result to the nearest such       *)
(* value, ties to even.  Mantissas exceed 32-bit integers, so naturals are *)
(* kept as little-endian sequences of limbs.                               *)
(* The inputs considered stay far from the exponent limits of binary64,    *)
(* so overflow, subnormals, infinities and NaN do not occur.               *)
(***************************************************************************)
EXTENDS Integers, Sequences, FiniteSets, TLC

VARIABLES
    sheet,                \* the rows of the first sheet of the workbook
    source,               \* the workbook: whether it opens, its first sheet's name
    filtered_dic,         \* the dictionary of named series
    pc,                   \* position of the main script, or of the last call
    err,                  \* the exception that ended the run or the last call, "" when none
    args,                 \* the arguments of the last call
    out,                  \* <<value>> returned by the last call, <<>> when none
    slope_intercept_lst,  \* <<[slope, a0]>> once main has fitted the line
    sample_tpl,           \* <<[a, b]>> once main has validated the sample pair
    final_conc,           \* <<value>> once main has computed it
    report,               \* <<[conc, slope, a0]>> once main has printed
    trace,                \* the stages main has entered, in order
    calls                 \* number of calls made on the dictionary

vars == <<sheet, source, filtered_dic, pc, err, args, out, slope_intercept_lst,
          sample_tpl, final_conc, report, trace, calls>>

---------------------------------------------------------------------------
(* Natural numbers of arbitrary size: little-endian limbs, no leading zero *)

LimbBits == 15

Base == 32768

RECURSIVE Trim(_)
Trim(a) ==
    IF a = <<>> THEN <<>>
    ELSE IF a[Len(a)] = 0 THEN Trim(SubSeq(a, 1, Len(a) - 1)) ELSE a

Limb(a, i) == IF i <= Len(a) THEN a[i] ELSE 0

RECURSIVE AddFrom(_, _, _, _)
AddFrom(a, b, i, c) ==
    IF i > Len(a) /\ i > Len(b) THEN (IF c = 0 THEN <<>> ELSE <<c>>)
    ELSE LET t == Limb(a, i) + Limb(b, i) + c
         IN  <<t % Base>> \o AddFrom(a, b, i + 1, t \div Base)

NatAdd(a, b) == AddFrom(a, b, 1, 0)

\* a - b for a >= b
RECURSIVE SubFrom(_, _, _, _)
SubFrom(a, b, i, c) ==
    IF i > Len(a) THEN <<>>
    ELSE LET t == a[i] - Limb(b, i) - c
         IN  IF t < 0 THEN <<t + Base>> \o SubFrom(a, b, i + 1, 1)
             ELSE <<t>> \o SubFrom(a, b, i + 1, 0)

NatSub(a, b) == Trim(SubFrom(a, b, 1, 0))

\* -1, 0 or 1 as a < b, a = b, a > b
RECURSIVE CmpFrom(_, _, _)
CmpFrom(a, b, i) ==
    IF i = 0 THEN 0
    ELSE IF a[i] < b[i] THEN -1
    ELSE IF a[i] > b[i] THEN 1
    ELSE CmpFrom(a, b, i - 1)

NatCmp(a, b) ==
    IF Len(a) < Len(b) THEN -1
    ELSE IF Len(a) > Len(b) THEN 1
    ELSE CmpFrom(a, b, Len(a))

RECURSIVE MulSmallFrom(_, _, _, _)
MulSmallFrom(a, k, i, c) ==
    IF i > Len(a) THEN (IF c = 0 THEN <<>> ELSE <<c>>)
    ELSE LET t == a[i] * k + c
         IN  <<t % Base>> \o MulSmallFrom(a, k, i + 1, t \div Base)

\* a * k for 0 <= k < Base
NatMulSmall(a, k) == IF k = 0 THEN <<>> ELSE MulSmallFrom(a, k, 1, 0)

Zeros(n) == [i \in 1..n |-> 0]

RECURSIVE MulFrom(_, _, _)
MulFrom(a, b, j) ==
    IF j > Len(b) THEN <<>>
    ELSE NatAdd(IF b[j] = 0 THEN <<>> ELSE Zeros(j - 1) \o NatMulSmall(a, b[j]),
                MulFrom(a, b, j + 1))

NatMul(a, b) == IF a = <<>> \/ b = <<>> THEN <<>> ELSE MulFrom(a, b, 1)

\* floor(a / k) for 0 < k < Base, from the top limb down; r is the running remainder
RECURSIVE DivSmallFrom(_, _, _, _)
DivSmallFrom(a, k, i, r) ==
    IF i = 0 THEN <<>>
    ELSE LET t == r * Base + a[i]
         IN  DivSmallFrom(a, k, i - 1, t % k) \o <<t \div k>>

NatDivSmall(a, k) == Trim(DivSmallFrom(a, k, Len(a), 0))

\* a * 2^n
ShiftLeft(a, n) ==
    IF a = <<>> THEN <<>>
    ELSE Zeros(n \div LimbBits) \o NatMulSmall(a, 2 ^ (n % LimbBits))

\* floor(a / 2^n)
ShiftRight(a, n) ==
    IF n \div LimbBits >= Len(a) THEN <<>>
    ELSE NatDivSmall(SubSeq(a, n \div LimbBits + 1, Len(a)), 2 ^ (n % LimbBits))

RECURSIVE SmallBitLen(_)
SmallBitLen(k) == IF k = 0 THEN 0 ELSE 1 + SmallBitLen(k \div 2)

BitLen(a) ==
    IF a = <<>> THEN 0 ELSE LimbBits * (Len(a) - 1) + SmallBitLen(a[Len(a)])

\* bit i (0 the lowest) of a
Bit(a, i) == (Limb(a, i \div LimbBits + 1) \div (2 ^ (i % LimbBits))) % 2

RECURSIVE FromNat(_)
FromNat(n) == IF n = 0 THEN <<>> ELSE <<n % Base>> \o FromNat(n \div Base)

\* the largest digit t < Base with d * t <= r, for r < d * Base: bisection
RECURSIVE DigitFrom(_, _, _, _)
DigitFrom(r, d, bit, acc) ==
    IF bit < 0 THEN acc
    ELSE IF NatCmp(NatMulSmall(d, acc + 2 ^ bit), r) <= 0
         THEN DigitFrom(r, d, bit - 1, acc + 2 ^ bit)
         ELSE DigitFrom(r, d, bit - 1, acc)

\* quotient and remainder of n / d, d > 0: long division, limb i downwards; q holds
\* the limbs of the quotient found so far, r the running remainder
RECURSIVE DivFrom(_, _, _, _, _)
DivDigit(n, d, i, q, r2, t) ==
    DivFrom(n, d, i - 1, <<t>> \o q, NatSub(r2, NatMulSmall(d, t)))

DivLimb(n, d, i, q, r2) == DivDigit(n, d, i, q, r2, DigitFrom(r2, d, LimbBits - 1, 0))

DivFrom(n, d, i, q, r) ==
    IF i = 0 THEN [q |-> Trim(q), r |-> r]
    ELSE DivLimb(n, d, i, q, Trim(<<n[i]>> \o r))

NatDivMod(n, d) == DivFrom(n, d, Len(n), <<>>, <<>>)

---------------------------------------------------------------------------
(* Exact dyadic numbers s * m * 2^e, and binary64 as their rounding        *)

DZero == [s |-> 1, m |-> <<>>, e |-> 0]

Dy(s, m, e) == IF m = <<>> THEN DZero ELSE [s |-> s, m |-> m, e |-> e]

DNeg(a) == Dy(-a.s, a.m, a.e)

DAbs(a) == Dy(1, a.m, a.e)

\* ma * 2^e and mb * 2^e with signs sa and sb added, c the order of ma and mb
DAddAligned(sa, ma, sb, mb, e, c) ==
    IF sa = sb THEN Dy(sa, NatAdd(ma, mb), e)
    ELSE IF c = 0 THEN DZero
    ELSE IF c > 0 THEN Dy(sa, NatSub(ma, mb), e)
    ELSE Dy(sb, NatSub(mb, ma), e)

DAddShifted(sa, ma, sb, mb, e) == DAddAligned(sa, ma, sb, mb, e, NatCmp(ma, mb))

DAddAt(a, b, e) ==
    DAddShifted(a.s, ShiftLeft(a.m, a.e - e), b.s, ShiftLeft(b.m, b.e - e), e)

DAdd(a, b) ==
    IF a.m = <<>> THEN b
    ELSE IF b.m = <<>> THEN a
    ELSE DAddAt(a, b, IF a.e < b.e THEN a.e ELSE b.e)

DSub(a, b) == DAdd(a, DNeg(b))

DMul(a, b) == Dy(a.s * b.s, NatMul(a.m, b.m), a.e + b.e)

\* -1, 0 or 1 as d < 0, d = 0, d > 0
DSign(d) == IF d.m = <<>> THEN 0 ELSE d.s

\* -1, 0 or 1 as a < b, a = b, a > b
DCmp(a, b) == DSign(DSub(a, b))

DInt(n) == IF n < 0 THEN Dy(-1, FromNat(-n), 0) ELSE Dy(1, FromNat(n), 0)

DPow2(k) == Dy(1, <<1>>, k)

MantBits == 53

\* s * q1 * 2^e, renormalised when the rounding carried into a 54th bit
RoundCarry(s, q1, e) ==
    IF BitLen(q1) > MantBits THEN Dy(s, ShiftRight(q1, 1), e + 1) ELSE Dy(s, q1, e)

\* q the 53 leading bits; c orders the bits dropped against one half of the last place
RoundDecide(s, q, e, c, sticky) ==
    RoundCarry(s,
               IF c > 0 \/ (c = 0 /\ (sticky \/ Bit(q, 0) = 1)) THEN NatAdd(q, <<1>>) ELSE q,
               e)

RoundQuot(d, sh, q, sticky) ==
    RoundDecide(d.s, q, d.e + sh,
                NatCmp(NatSub(d.m, ShiftLeft(q, sh)), ShiftLeft(<<1>>, sh - 1)), sticky)

RoundShift(d, sh, sticky) ==
    IF sh <= 0 THEN Dy(d.s, ShiftLeft(d.m, -sh), d.e + sh)
    ELSE RoundQuot(d, sh, ShiftRight(d.m, sh), sticky)

\* the binary64 nearest to d (+ a positive amount below one unit of d's last
\* bit when sticky), ties to even
RoundSticky(d, sticky) ==
    IF d.m = <<>> THEN DZero ELSE RoundShift(d, BitLen(d.m) - MantBits, sticky)

Round(d) == RoundSticky(d, FALSE)

FAdd(a, b) == Round(DAdd(a, b))

FSub(a, b) == Round(DSub(a, b))

FMul(a, b) == Round(DMul(a, b))

GuardBits == 56

FDivQuot(s, e, qr) == RoundSticky(Dy(s, qr.q, e), qr.r # <<>>)

\* a / b for b # 0
FDiv(a, b) ==
    IF a.m = <<>> THEN DZero
    ELSE FDivQuot(a.s * b.s, a.e - b.e - GuardBits,
                  NatDivMod(ShiftLeft(a.m, GuardBits), b.m))

IsZero(a) == a.m = <<>>

\* float(n) of an int n
FInt(n) == Round(DInt(n))

\* the binary64 nearest to n / 10^k: the value of a decimal literal
FDec(n, k) == FDiv(FInt(n), FInt(10 ^ k))

---------------------------------------------------------------------------
(* Exceptions, named by their class and the message of the raise           *)

NoError == ""

FindRowArguments == "TypeError: The arguments for this function have the wrong type and/or wrong target index."

FileNotFound == "FileNotFoundError: File name not found"

InputSheetNotFirst == "ValueError: 'Input' sheet has to be at the first position."

ColumnOutOfRange == "IndexError: list index out of range"

LabelNotFound == "ValueError: Searched cell name was not found in the selected column"

DuplicateLabel == "ValueError: Searched cell name appears more often in selected column"

EmptyRow == "ValueError: No numbers were found in named row"

SubtractArguments == "TypeError: Wrong type of arguments used to do blank subtraction."

KeyNotFound == "ValueError: Your key was not found in the dictionary"

EmptyValue == "ValueError: The value of the key has an empty list"

BlankKeyError == "KeyError: 'Mean Blank'"

CleanArguments == "TypeError: Input needs to be two lists."

EmptyInput == "ValueError: At least one list has no values"

LengthMismatch == "IndexError: These two lists are not equal in length"

NonNumericValue == "ValueError: List's values need to consist of numbers"

FloatTypeError == "TypeError: float() argument must be a string or a real number"

DivisionByZero == "ZeroDivisionError: float division by zero"

---------------------------------------------------------------------------
(* The sheet: rows of cells [t, v]; t is the type xlrd gives the value     *)
(* ("float" for numbers, "str" for text and for blank cells, "int" for     *)
(* booleans and error codes)                                               *)

FloatCell(f) == [t |-> "float", v |-> f]

TextCell(txt) == [t |-> "str", v |-> txt]

IntCell(n) == [t |-> "int", v |-> n]

BlankCell == TextCell("")

\* Python's ==  between a cell value and the searched name, a str
CellEquals(c, a_cell) == c.t = "str" /\ c.v = a_cell

NCols(sh) == IF sh = <<>> THEN 0 ELSE Len(sh[1])

\* a faulty variant of CountFrom: a name found is counted once, however often it occurs
CountOnce(info, a_cell, i) ==
    IF \E k \in i..Len(info) : CellEquals(info[k], a_cell) THEN 1 ELSE 0

\* info.count(a_cell): the loop over the list
RECURSIVE CountFrom(_, _, _)
CountFrom(info, a_cell, i) ==
    IF i > Len(info) THEN 0
    ELSE (IF CellEquals(info[i], a_cell) THEN 1 ELSE 0) + CountFrom(info, a_cell, i + 1)

\* info.index(a_cell): the first position holding it
RECURSIVE IndexFrom(_, _, _)
IndexFrom(info, a_cell, i) ==
    IF CellEquals(info[i], a_cell) THEN i ELSE IndexFrom(info, a_cell, i + 1)

\* a faulty variant of FloatsFrom: the filter keeps every number, an int as its float
RECURSIVE NumbersFrom(_, _)
NumbersFrom(lst, i) ==
    IF i > Len(lst) THEN <<>>
    ELSE IF lst[i].t = "float" THEN <<lst[i].v>> \o NumbersFrom(lst, i + 1)
    ELSE IF lst[i].t = "int" THEN <<FInt(lst[i].v)>> \o NumbersFrom(lst, i + 1)
    ELSE NumbersFrom(lst, i + 1)

\* [i for i in lst if type(i) == float]
RECURSIVE FloatsFrom(_, _)
FloatsFrom(lst, i) ==
    IF i > Len(lst) THEN <<>>
    ELSE IF lst[i].t = "float" THEN <<lst[i].v>> \o FloatsFrom(lst, i + 1)
    ELSE FloatsFrom(lst, i + 1)

Raise(e, a_dict) == [err |-> e, dict |-> a_dict]

Return(a_dict) == [err |-> NoError, dict |-> a_dict]

\* a_dict[a_key] = value
SetItem(a_dict, a_key, value) ==
    [k \in DOMAIN a_dict \cup {a_key} |-> IF k = a_key THEN value ELSE a_dict[k]]

\* a faulty variant of StoreRow: the row is stored without the check for an empty list
StoreRowUnchecked(a_dict, a_cell, lst_clean) ==
    Return(SetItem(a_dict, a_cell, lst_clean))

\* the end of find_row: the check for an empty list, then a_dict[a_cell] = lst_clean
StoreRow(a_dict, a_cell, lst_clean) ==
    IF Len(lst_clean) = 0 THEN Raise(EmptyRow, a_dict)
    ELSE Return(SetItem(a_dict, a_cell, lst_clean))

\* one_appearance = info.count(a_cell) and what follows it
FindCounted(info, sh, a_cell, a_dict, one_appearance) ==
    IF one_appearance < 1 THEN Raise(LabelNotFound, a_dict)
    ELSE IF one_appearance > 1 THEN Raise(DuplicateLabel, a_dict)
    ELSE StoreRow(a_dict, a_cell, FloatsFrom(sh[IndexFrom(info, a_cell, 1)], 1))

\* info, the cells of the selected column, and what follows it
FindInColumn(info, sh, a_cell, a_dict) ==
    FindCounted(info, sh, a_cell, a_dict, CountFrom(info, a_cell, 1))

\* find_row on the workbook src with first sheet sh: the exception raised, if any,
\* and the dictionary after the call
find_row(src, sh, a_file, a_cell, a_dict, a_column) ==
    IF a_file.t # "str" \/ a_column < 0 THEN Raise(FindRowArguments, a_dict)
    ELSE IF ~src.exists THEN Raise(FileNotFound, a_dict)
    ELSE IF src.first # "Input" THEN Raise(InputSheetNotFirst, a_dict)
    ELSE IF sh # <<>> /\ a_column >= NCols(sh) THEN Raise(ColumnOutOfRange, a_dict)
    ELSE FindInColumn([row \in 1..Len(sh) |-> sh[row][a_column + 1]], sh, a_cell, a_dict)

\* a faulty variant of InnerLoop: only the first blank value is subtracted
InnerFirstOnly(update, i, blank, n) ==
    IF blank = <<>> THEN update ELSE Append(update, FSub(i, blank[1]))

\* for j in a_dict["Mean Blank"]: update.append(i - j)
RECURSIVE InnerLoop(_, _, _, _)
InnerLoop(update, i, blank, n) ==
    IF n > Len(blank) THEN update
    ELSE InnerLoop(Append(update, FSub(i, blank[n])), i, blank, n + 1)

\* a faulty variant of OuterLoop: the loops are exchanged, the blank series outermost
RECURSIVE BlankOutermost(_, _, _, _)
BlankOutermost(update, target, blank, n) ==
    IF n > Len(blank) THEN update
    ELSE BlankOutermost(update \o [k \in 1..Len(target) |-> FSub(target[k], blank[n])],
                        target, blank, n + 1)

\* for i in a_dict[a_key]: ...
RECURSIVE OuterLoop(_, _, _, _)
OuterLoop(update, target, blank, n) ==
    IF n > Len(target) THEN update
    ELSE OuterLoop(InnerLoop(update, target[n], blank, 1), target, blank, n + 1)

\* subtract_blank; a_key is [t, v]: its type and, for a str, its value
subtract_blank(a_dict, a_key) ==
    IF a_key.t # "str" /\ a_key.t # "int" /\ a_key.t # "float"
    THEN Raise(SubtractArguments, a_dict)
    ELSE IF a_key.v \notin DOMAIN a_dict THEN Raise(KeyNotFound, a_dict)
    ELSE IF Len(a_dict[a_key.v]) = 0 THEN Raise(EmptyValue, a_dict)
    ELSE IF "Mean Blank" \notin DOMAIN a_dict THEN Raise(BlankKeyError, a_dict)
    ELSE Return(SetItem(a_dict, a_key.v,
                        OuterLoop(<<>>, a_dict[a_key.v], a_dict["Mean Blank"], 1)))

---------------------------------------------------------------------------
(* Python values [t, v] as list elements, and float() of them              *)

PyFloatOf(f) == [t |-> "float", v |-> f]

PyInt(n) == [t |-> "int", v |-> n]

\* a str, as the sequence of its characters
PyStr(chars) == [t |-> "str", v |-> chars]

PyNone == [t |-> "NoneType", v |-> <<>>]

\* a list nested inside the list
PyList == [t |-> "list", v |-> <<>>]

Digits == {"0", "1", "2", "3", "4", "5", "6", "7", "8", "9"}

DigitValue(c) ==
    CASE c = "0" -> 0 [] c = "1" -> 1 [] c = "2" -> 2 [] c = "3" -> 3 [] c = "4" -> 4
      [] c = "5" -> 5 [] c = "6" -> 6 [] c = "7" -> 7 [] c = "8" -> 8 [] c = "9" -> 9

\* the digits of chars read as one decimal number, the point skipped
RECURSIVE DigitsValue(_, _, _)
DigitsValue(chars, i, acc) ==
    IF i > Len(chars) THEN acc
    ELSE IF chars[i] = "." THEN DigitsValue(chars, i + 1, acc)
    ELSE DigitsValue(chars, i + 1, 10 * acc + DigitValue(chars[i]))

ParseValue(neg, value) == [ok |-> TRUE, v |-> IF neg THEN DNeg(value) ELSE value]

\* body the characters after the sign, points the positions of "." in it
ParseDigits(neg, body, points) ==
    IF /\ \A i \in 1..Len(body) : body[i] \in Digits \cup {"."}
       /\ Cardinality(points) <= 1
       /\ \E i \in 1..Len(body) : body[i] \in Digits
    THEN ParseValue(neg,
             FDiv(FInt(DigitsValue(body, 1, 0)),
                  FInt(10 ^ (IF points = {} THEN 0
                             ELSE Len(body) - (CHOOSE i \in points : TRUE)))))
    ELSE [ok |-> FALSE, v |-> DZero]

ParseBody(neg, body) == ParseDigits(neg, body, {i \in 1..Len(body) : body[i] = "."})

\* float(str) for a str over digits, ".", "+", "-" and letters: an optional sign,
\* then digits with at most one point and at least one digit; anything else is a
\* ValueError.  [ok, v]
ParseFloat(chars) ==
    ParseBody(chars # <<>> /\ chars[1] = "-",
              IF chars # <<>> /\ chars[1] \in {"-", "+"}
              THEN SubSeq(chars, 2, Len(chars)) ELSE chars)

PyFloatStr(r) == [exc |-> IF r.ok THEN "" ELSE "ValueError", v |-> r.v]

\* float(i): [exc, v], exc the class of the exception raised, "" when none
PyFloat(i) ==
    CASE i.t = "float" -> [exc |-> "", v |-> i.v]
      [] i.t = "int"   -> [exc |-> "", v |-> FInt(i.v)]
      [] i.t = "str"   -> PyFloatStr(ParseFloat(i.v))
      [] OTHER         -> [exc |-> "TypeError", v |-> DZero]

Fail(e) == [err |-> e, val |-> <<>>]

Value(v) == [err |-> NoError, val |-> <<v>>]

\* for i in a_list: try: cln.append(float(i)) except ValueError: raise ValueError(...)
\* f is float(a_list[n]); a TypeError of float() is not caught
RECURSIVE CleanLoop(_, _, _)
CleanStep(a_list, n, cln, f) ==
    IF f.exc = "ValueError" THEN Fail(NonNumericValue)
    ELSE IF f.exc = "TypeError" THEN Fail(FloatTypeError)
    ELSE CleanLoop(a_list, n + 1, Append(cln, f.v))

CleanLoop(a_list, n, cln) ==
    IF n > Len(a_list) THEN Value(cln) ELSE CleanStep(a_list, n, cln, PyFloat(a_list[n]))

CleanSecond(cln_a, cln_b_list) ==
    IF cln_b_list.err # NoError THEN cln_b_list ELSE Value(<<cln_a, cln_b_list.val[1]>>)

\* the two loops of clean_two_lsts, the first before the second
CleanBoth(cln_a_list, b_items) ==
    IF cln_a_list.err # NoError THEN cln_a_list
    ELSE CleanSecond(cln_a_list.val[1], CleanLoop(b_items, 1, <<>>))

\* clean_two_lsts; an argument is [t, items]: its type and its elements
clean_two_lsts(a_list, b_list) ==
    IF a_list.t # "list" \/ b_list.t # "list" THEN Fail(CleanArguments)
    ELSE IF Len(a_list.items) = 0 \/ Len(b_list.items) = 0 THEN Fail(EmptyInput)
    ELSE IF Len(a_list.items) # Len(b_list.items) THEN Fail(LengthMismatch)
    ELSE CleanBoth(CleanLoop(a_list.items, 1, <<>>), b_list.items)

\* sum(lst): 0 + lst[0] + lst[1] + ..., left to right
RECURSIVE SumLoop(_, _, _)
SumLoop(lst, n, acc) ==
    IF n > Len(lst) THEN acc ELSE SumLoop(lst, n + 1, FAdd(acc, lst[n]))

sum(lst) == SumLoop(lst, 1, FInt(0))

\* a faulty variant of Square: i * 2 for i ** 2
Doubled(i) == FAdd(i, i)

\* i ** 2, taken as the correctly rounded square
Square(i) == FMul(i, i)

\* a0 = y_mean - x_mean * slope; return [slope, a0]
FitIntercept(x_mean, y_mean, slope) ==
    Value(<<slope, FSub(y_mean, FMul(x_mean, slope))>>)

\* slope = sum_mult_diff_mean_x_y / sum_squared_diff_mean_x
FitSlope(x_mean, y_mean, sum_mult_diff_mean_x_y, sum_squared_diff_mean_x) ==
    IF IsZero(sum_squared_diff_mean_x) THEN Fail(DivisionByZero)
    ELSE FitIntercept(x_mean, y_mean, FDiv(sum_mult_diff_mean_x_y, sum_squared_diff_mean_x))

\* squared_diff_mean_x, mult_diff_mean_x_y and their sums
FitSums(x_mean, y_mean, diff_mean_x, diff_mean_y) ==
    FitSlope(x_mean, y_mean,
             sum([i \in 1..Len(diff_mean_x) |-> FMul(diff_mean_x[i], diff_mean_y[i])]),
             sum([i \in 1..Len(diff_mean_x) |-> Square(diff_mean_x[i])]))

\* diff_mean_x and diff_mean_y
FitDiffs(xs, ys, x_mean, y_mean) ==
    FitSums(x_mean, y_mean,
            [i \in 1..Len(xs) |-> FSub(xs[i], x_mean)],
            [i \in 1..Len(ys) |-> FSub(ys[i], y_mean)])

\* x_mean = x_sum / len(...) and y_mean = y_sum / len(...)
FitMeans(xs, ys) ==
    FitDiffs(xs, ys, FDiv(sum(xs), FInt(Len(xs))), FDiv(sum(ys), FInt(Len(ys))))

FitCleaned(cleaned_tpl_xi_yi) ==
    IF cleaned_tpl_xi_yi.err # NoError THEN cleaned_tpl_xi_yi
    ELSE FitMeans(cleaned_tpl_xi_yi.val[1][1], cleaned_tpl_xi_yi.val[1][2])

\* calculate_linear_equation: <<slope, a0>>
calculate_linear_equation(x, y) == FitCleaned(clean_two_lsts(x, y))

\* for n, i in enumerate(sample_tpl[1]): a = (i - a0) / a1; conc_sum += sample_tpl[0][n] * a
RECURSIVE ConcLoop(_, _, _, _)
ConcLoop(fit, tpl, n, conc_sum) ==
    IF n > Len(tpl[2]) THEN Value(conc_sum)
    ELSE IF IsZero(fit[1]) THEN Fail(DivisionByZero)
    ELSE ConcLoop(fit, tpl, n + 1,
                  FAdd(conc_sum, FMul(tpl[1][n], FDiv(FSub(tpl[2][n], fit[2]), fit[1]))))

\* a faulty variant of ConcMean: the sum returned without the division by the count
ConcSumOnly(tpl, conc_sum) ==
    IF conc_sum.err # NoError THEN conc_sum ELSE Value(conc_sum.val[1])

\* final_conc = conc_sum / len(sample_tpl[0])
ConcMean(tpl, conc_sum) ==
    IF conc_sum.err # NoError THEN conc_sum
    ELSE IF Len(tpl[1]) = 0 THEN Fail(DivisionByZero)
    ELSE Value(FDiv(conc_sum.val[1], FInt(Len(tpl[1]))))

\* the back-calculation of main: final_conc from the fit <<slope, a0>> and the
\* pair <<dilutions, sample>>
ConcentrationEstimator(fit, tpl) == ConcMean(tpl, ConcLoop(fit, tpl, 1, FInt(0)))

---------------------------------------------------------------------------
(* Inputs                                                                  *)

F(n) == FInt(n)

\* the float 0.1
Tenth == FDec(1, 1)

RowWidth == 5

\* a row of the sheet: the cells given, then blank cells up to the sheet's width
Row(cells) == cells \o [i \in 1..(RowWidth - Len(cells)) |-> BlankCell]

\* a row named in the first column and holding the floats given
DataRow(name, floats) ==
    Row(<<TextCell(name)>> \o [i \in 1..Len(floats) |-> FloatCell(floats[i])])

Sources ==
    { [exists |-> TRUE, first |-> "Input"],
      [exists |-> TRUE, first |-> "Results"],
      [exists |-> FALSE, first |-> "Input"] }

MainFile == [t |-> "str", v |-> "test.xls"]

important_rows ==
    << "Mean Blank", "Standard Concentration [pg/ul]", "Mean Standard",
       "Dilutions used for sample", "Mean Sample" >>

to_blank_subtr == << "Mean Standard", "Mean Sample" >>

Unset ==
    /\ slope_intercept_lst = <<>>
    /\ sample_tpl = <<>>
    /\ final_conc = <<>>
    /\ report = <<>>
    /\ trace = <<>>

UnchangedMain == UNCHANGED <<slope_intercept_lst, sample_tpl, final_conc, report, trace>>

---------------------------------------------------------------------------
(* Calls of find_row and subtract_blank on one dictionary, in any order    *)

MaxCalls == 4

MaxSeries == 16

OpsSheets ==
    { <<>>,
      << DataRow("Mean Blank", <<F(1), F(2)>>),
         DataRow("Mean Standard", <<F(10), F(20)>>),
         DataRow("Twice", <<F(1)>>),
         DataRow("Twice", <<F(2)>>),
         Row(<<TextCell("No numbers"), IntCell(1), TextCell("n/a")>>),
         Row(<<TextCell("Mixed"), IntCell(3), TextCell("note"), FloatCell(F(5))>>) >>,
      << DataRow("Mean Standard", <<F(10), Tenth>>),
         Row(<<TextCell("Mean Blank"), TextCell("note"), FloatCell(F(1)), IntCell(0)>>) >> }

OpsFiles == { MainFile, [t |-> "int", v |-> ""] }

OpsLabels == { "Mean Blank", "Mean Standard", "Twice", "No numbers", "Mixed", "note", "Absent" }

OpsColumns == { -1, 0, 2, RowWidth }

OpsKeys ==
    { [t |-> "str", v |-> "Mean Blank"], [t |-> "str", v |-> "Mean Standard"],
      [t |-> "str", v |-> "Mixed"], [t |-> "NoneType", v |-> ""] }

Init ==
    /\ sheet \in OpsSheets
    /\ source \in Sources
    /\ filtered_dic = <<>>
    /\ pc = "idle"
    /\ err = NoError
    /\ args = [op |-> "none"]
    /\ out = <<>>
    /\ calls = 0
    /\ Unset

CallFindRow ==
    /\ calls < MaxCalls
    /\ \E a_file \in OpsFiles, a_cell \in OpsLabels, a_column \in OpsColumns :
         \E r \in {find_row(source, sheet, a_file, a_cell, filtered_dic, a_column)} :
             /\ args' = [op |-> "find_row", a_file |-> a_file, a_cell |-> a_cell,
                         a_dict |-> filtered_dic, a_column |-> a_column]
             /\ filtered_dic' = r.dict
             /\ err' = r.err
    /\ pc' = "returned"
    /\ calls' = calls + 1
    /\ UNCHANGED <<sheet, source, out>>
    /\ UnchangedMain

\* the length of the series a call of subtract_blank would build
CorrectedLen(a_dict, a_key) ==
    IF a_key.v \in DOMAIN a_dict /\ "Mean Blank" \in DOMAIN a_dict
    THEN Len(a_dict[a_key.v]) * Len(a_dict["Mean Blank"])
    ELSE 0

CallSubtractBlank ==
    /\ calls < MaxCalls
    /\ \E a_key \in OpsKeys :
         \E r \in {subtract_blank(filtered_dic, a_key)} :
             /\ CorrectedLen(filtered_dic, a_key) <= MaxSeries
             /\ args' = [op |-> "subtract_blank", a_key |-> a_key, a_dict |-> filtered_dic]
             /\ filtered_dic' = r.dict
             /\ err' = r.err
    /\ pc' = "returned"
    /\ calls' = calls + 1
    /\ UNCHANGED <<sheet, source, out>>
    /\ UnchangedMain

Next == CallFindRow \/ CallSubtractBlank

Spec == Init /\ [][Next]_vars
---------------------------------------------------------------------------
(* The main script                                                         *)

\* the choices for the rows of each name: no row, one row, two rows
BlankRows ==
    { <<>>, << <<F(1)>> >>, << <<F(1), F(2)>> >>, << <<F(1)>>, <<F(1)>> >>, << <<>> >> }

ConcentrationRows ==
    { <<>>, << <<F(0), F(1), F(2)>> >>, << <<F(0), F(1), F(2), F(3)>> >>,
      << <<F(1), F(1), F(1)>> >> }

StandardRows ==
    { << <<F(4), F(6), F(8)>> >>, << <<F(4), F(6)>> >>, << <<F(5), F(5), F(5)>> >> }

DilutionRows ==
    { << <<F(1), F(2)>> >>, << <<F(2)>> >>, << <<F(1), F(2)>>, <<F(1), F(2)>> >> }

SampleRows ==
    { << <<F(6), F(8)>> >>, << <<F(6)>> >>, << <<>> >> }

NamedRows(name, rows) == [i \in 1..Len(rows) |-> DataRow(name, rows[i])]

MainSheets ==
    { NamedRows(important_rows[1], b) \o NamedRows(important_rows[2], c)
        \o NamedRows(important_rows[3], s) \o NamedRows(important_rows[4], d)
        \o NamedRows(important_rows[5], m) :
      b \in BlankRows, c \in ConcentrationRows, s \in StandardRows,
      d \in DilutionRows, m \in SampleRows }

InitMain ==
    /\ sheet \in MainSheets
    /\ source \in Sources
    /\ filtered_dic = <<>>
    /\ pc = "find_row"
    /\ err = NoError
    /\ args = [op |-> "none"]
    /\ out = <<>>
    /\ calls = 0
    /\ Unset

\* a faulty variant of Uncaught: a main that swallowed the IndexError of the validation
UncaughtUnlessIndexError(e) == e # NoError /\ e # LengthMismatch

\* main has no try: an exception raised by a stage ends the run
Uncaught(e) == e # NoError

\* a list of floats as the argument of a call
ListOf(series) == [t |-> "list", items |-> [i \in 1..Len(series) |-> PyFloatOf(series[i])]]

\* the stage just run: where main goes on, loop the stage while it has iterations left
Goes(e, stage, more, then) ==
    /\ err' = e
    /\ trace' = Append(trace, stage)
    /\ pc' = IF Uncaught(e) THEN "aborted" ELSE IF more THEN stage ELSE then
    /\ calls' = IF Uncaught(e) \/ ~more THEN 0 ELSE calls + 1

\* for i in important_rows: find_row("test.xls", i, filtered_dic)
MainFindRow ==
    /\ pc = "find_row"
    /\ \E i \in {important_rows[calls + 1]} :
       \E r \in {find_row(source, sheet, MainFile, i, filtered_dic, 0)} :
           /\ filtered_dic' = r.dict
           /\ args' = [op |-> "find_row", a_file |-> MainFile, a_cell |-> i,
                       a_dict |-> filtered_dic, a_column |-> 0]
           /\ Goes(r.err, "find_row", calls + 1 < Len(important_rows), "subtract_blank")
    /\ UNCHANGED <<sheet, source, out, slope_intercept_lst, sample_tpl, final_conc, report>>

\* for i in to_blank_subtr: subtract_blank(filtered_dic, i)
MainSubtractBlank ==
    /\ pc = "subtract_blank"
    /\ \E i \in {[t |-> "str", v |-> to_blank_subtr[calls + 1]]} :
       \E r \in {subtract_blank(filtered_dic, i)} :
           /\ filtered_dic' = r.dict
           /\ args' = [op |-> "subtract_blank", a_key |-> i, a_dict |-> filtered_dic]
           /\ Goes(r.err, "subtract_blank", calls + 1 < Len(to_blank_subtr),
                   "calculate_linear_equation")
    /\ UNCHANGED <<sheet, source, out, slope_intercept_lst, sample_tpl, final_conc, report>>

\* slope_intercept_lst = calculate_linear_equation(...)
MainFit ==
    /\ pc = "calculate_linear_equation"
    /\ \E r \in {calculate_linear_equation(ListOf(filtered_dic[important_rows[2]]),
                                           ListOf(filtered_dic[important_rows[3]]))} :
           /\ slope_intercept_lst' = r.val
           /\ Goes(r.err, "calculate_linear_equation", FALSE, "clean_two_lsts")
    /\ args' = [op |-> "calculate_linear_equation"]
    /\ UNCHANGED <<sheet, source, filtered_dic, out, sample_tpl, final_conc, report>>

\* sample_tpl = clean_two_lsts(...)
MainClean ==
    /\ pc = "clean_two_lsts"
    /\ \E r \in {clean_two_lsts(ListOf(filtered_dic[important_rows[4]]),
                                ListOf(filtered_dic[important_rows[5]]))} :
           /\ sample_tpl' = r.val
           /\ Goes(r.err, "clean_two_lsts", FALSE, "final_conc")
    /\ args' = [op |-> "clean_two_lsts"]
    /\ UNCHANGED <<sheet, source, filtered_dic, out, slope_intercept_lst, final_conc, report>>

\* conc_sum = 0; for ...; final_conc = conc_sum / len(sample_tpl[0])
MainConc ==
    /\ pc = "final_conc"
    /\ \E r \in {ConcentrationEstimator(slope_intercept_lst[1], sample_tpl[1])} :
           /\ final_conc' = r.val
           /\ Goes(r.err, "final_conc", FALSE, "r_sq")
    /\ args' = [op |-> "final_conc"]
    /\ UNCHANGED <<sheet, source, filtered_dic, out, slope_intercept_lst, sample_tpl, report>>

\* r_sq and y_regression_line: numpy's correlation, of no effect on what is modelled
MainRSq ==
    /\ pc = "r_sq"
    /\ Goes(NoError, "r_sq", FALSE, "plot")
    /\ args' = [op |-> "r_sq"]
    /\ UNCHANGED <<sheet, source, filtered_dic, out, slope_intercept_lst, sample_tpl,
                   final_conc, report>>

\* creating the graph
MainPlot ==
    /\ pc = "plot"
    /\ Goes(NoError, "plot", FALSE, "print")
    /\ args' = [op |-> "plot"]
    /\ UNCHANGED <<sheet, source, filtered_dic, out, slope_intercept_lst, sample_tpl,
                   final_conc, report>>

\* OUTPUT: the concentration, then the equation with the sign of the intercept
MainPrint ==
    /\ pc = "print"
    /\ report' = << [final_conc |-> final_conc[1],
                     slope      |-> slope_intercept_lst[1][1],
                     sign       |-> IF DCmp(slope_intercept_lst[1][2], DZero) >= 0
                                    THEN "+" ELSE "-",
                     intercept  |-> DAbs(slope_intercept_lst[1][2])] >>
    /\ Goes(NoError, "print", FALSE, "done")
    /\ args' = [op |-> "print"]
    /\ UNCHANGED <<sheet, source, filtered_dic, out, slope_intercept_lst, sample_tpl,
                   final_conc>>

NextMain ==
    \/ MainFindRow
    \/ MainSubtractBlank
    \/ MainFit
    \/ MainClean
    \/ MainConc
    \/ MainRSq
    \/ MainPlot
    \/ MainPrint

SpecMain == InitMain /\ [][NextMain]_vars

---------------------------------------------------------------------------
(* calculate_linear_equation applied to one pair of lists                  *)

MaxLen == 3

XValues == {F(0), F(1), F(3), Tenth}

\* the sequences over S of lengths lo to hi
SeqsOf(S, lo, hi) == UNION {[1..k -> S] : k \in lo..hi}

\* y[i] = 2 * x[i] + 3, as the floats Python computes
OnLine(xs) == [i \in 1..Len(xs) |-> FAdd(FMul(F(2), xs[i]), F(3))]

\* y = 1.0, 2.0, ...
Ramp(xs) == [i \in 1..Len(xs) |-> F(i)]

FitInputs ==
    UNION { { [op |-> "calculate_linear_equation", x |-> ListOf(xs), y |-> ListOf(ys)] :
              ys \in {OnLine(xs), Ramp(xs)} } : xs \in SeqsOf(XValues, 1, MaxLen) }

\* the state of a single call: everything but args, err, out and pc stays as built
InitCall ==
    /\ sheet = <<>>
    /\ source = [exists |-> FALSE, first |-> "Input"]
    /\ filtered_dic = <<>>
    /\ pc = "idle"
    /\ err = NoError
    /\ out = <<>>
    /\ calls = 0
    /\ Unset

Returns(r) ==
    /\ err' = r.err
    /\ out' = r.val
    /\ pc' = "returned"
    /\ UNCHANGED <<sheet, source, filtered_dic, args, calls>>
    /\ UnchangedMain

InitFit == InitCall /\ args \in FitInputs

CallFit ==
    /\ pc = "idle"
    /\ args.op = "calculate_linear_equation"
    /\ \E r \in {calculate_linear_equation(args.x, args.y)} : Returns(r)

NextFit == CallFit

SpecFit == InitFit /\ [][NextFit]_vars

---------------------------------------------------------------------------
(* clean_two_lsts applied to one pair of arguments                         *)

MaxItems == 2

Elements ==
    { PyFloatOf(F(1)), PyInt(2), PyStr(<<"3">>), PyStr(<<"a">>), PyNone,
      PyList }

CleanInputs ==
    { [op |-> "clean_two_lsts", a_list |-> [t |-> ta, items |-> a],
       b_list |-> [t |-> "list", items |-> b]] :
      ta \in {"list", "tuple"}, a \in SeqsOf(Elements, 0, MaxItems),
      b \in SeqsOf(Elements, 0, MaxItems) }

InitClean == InitCall /\ args \in CleanInputs

CallClean ==
    /\ pc = "idle"
    /\ args.op = "clean_two_lsts"
    /\ \E r \in {clean_two_lsts(args.a_list, args.b_list)} : Returns(r)

NextClean == CallClean

SpecClean == InitClean /\ [][NextClean]_vars

---------------------------------------------------------------------------
(* The back-calculation applied to one fit and one sample pair             *)

MaxN == 2

Slopes == {F(0), F(1), F(2), F(3), F(-1)}

Intercepts == {F(5), F(0)}

DilutionValues == {F(1), F(2)}

SampleValues == {F(10), F(20), F(6)}

ConcInputs ==
    { [op |-> "final_conc", fit |-> <<a1, a0>>, tpl |-> <<d, m>>] :
      a1 \in Slopes, a0 \in Intercepts,
      d \in SeqsOf(DilutionValues, 1, MaxN), m \in SeqsOf(SampleValues, 1, MaxN) }

InitConc == InitCall /\ args \in {i \in ConcInputs : Len(i.tpl[1]) = Len(i.tpl[2])}

CallConc ==
    /\ pc = "idle"
    /\ args.op = "final_conc"
    /\ \E r \in {ConcentrationEstimator(args.fit, args.tpl)} : Returns(r)

NextConc == CallConc

SpecConc == InitConc /\ [][NextConc]_vars

---------------------------------------------------------------------------
(* Properties of the calls                                                 *)

\* the last call was find_row with valid arguments on a readable source
ValidFindRow ==
    /\ args.op = "find_row"
    /\ args.a_file.t = "str"
    /\ args.a_column >= 0
    /\ (sheet = <<>> \/ args.a_column < RowWidth)
    /\ source.exists
    /\ source.first = "Input"

\* the rows whose cell in the target column is the searched name
LabelRows ==
    { r \in 1..Len(sheet) :
        /\ sheet[r][args.a_column + 1].t = "str"
        /\ sheet[r][args.a_column + 1].v = args.a_cell }

\* the last call was subtract_blank on a dictionary holding a non-empty target
\* series and a blank series
ValidSubtract ==
    /\ args.op = "subtract_blank"
    /\ args.a_key.t = "str"
    /\ args.a_key.v \in DOMAIN args.a_dict
    /\ "Mean Blank" \in DOMAIN args.a_dict
    /\ Len(args.a_dict[args.a_key.v]) > 0

\* C1: subtract_blank on a dictionary holding a non-empty target series T and a
\* blank series B succeeds and replaces the target entry, and only it, by the
\* series of length len(T) * len(B) whose element at position i * len(B) + j
\* (counted from 0) is T[i] - B[j].
C1_CrossProduct ==
    ValidSubtract =>
        LET T   == args.a_dict[args.a_key.v]
            B   == args.a_dict["Mean Blank"]
            new == filtered_dic[args.a_key.v]
        IN  /\ err = NoError
            /\ DOMAIN filtered_dic = DOMAIN args.a_dict
            /\ \A k \in DOMAIN filtered_dic \ {args.a_key.v} : filtered_dic[k] = args.a_dict[k]
            /\ Len(new) = Len(T) * Len(B)
            /\ \A i \in 0..(Len(T) - 1), j \in 0..(Len(B) - 1) :
                 new[i * Len(B) + j + 1] = FSub(T[i + 1], B[j + 1])

\* the example of C1: target [10, 20] and blank [1, 2] give [9, 8, 19, 18]
C1_Witness ==
    /\ ValidSubtract
    /\ args.a_dict[args.a_key.v] = <<F(10), F(20)>>
    /\ args.a_dict["Mean Blank"] = <<F(1), F(2)>>
    /\ args.a_key.v # "Mean Blank"
    /\ filtered_dic[args.a_key.v] = <<F(9), F(8), F(19), F(18)>>

\* C2: find_row with valid arguments on a readable source fails with
\* LabelNotFound when the name occurs in no row of the target column, fails with
\* DuplicateLabel when it occurs in more than one, and in both cases leaves the
\* dictionary alone; it returns, and changes the dictionary, only when the name
\* occurs exactly once.
C2_LabelOccurrences ==
    ValidFindRow =>
        /\ Cardinality(LabelRows) = 0 => (err = LabelNotFound /\ filtered_dic = args.a_dict)
        /\ Cardinality(LabelRows) > 1 => (err = DuplicateLabel /\ filtered_dic = args.a_dict)
        /\ (err = NoError \/ filtered_dic # args.a_dict) =>
              (Cardinality(LabelRows) = 1 /\ args.a_cell \in DOMAIN filtered_dic)

\* a name that occurs twice was searched after an entry had been stored
C2_Witness ==
    /\ ValidFindRow
    /\ Cardinality(LabelRows) = 2
    /\ err = DuplicateLabel
    /\ DOMAIN filtered_dic # {}

C9_SeriesNonEmpty ==
    /\ \A k \in DOMAIN filtered_dic : Len(filtered_dic[k]) > 0
    /\ (args.op # "none" /\ err # NoError) => filtered_dic = args.a_dict

\* a call failed on a dictionary that held a corrected series
C9_Witness ==
    /\ args.op # "none"
    /\ err # NoError
    /\ "Mean Standard" \in DOMAIN filtered_dic
    /\ Len(filtered_dic["Mean Standard"]) = 4

---------------------------------------------------------------------------
(* Properties of the fit                                                   *)

\* the floats of a list argument
Floats(l) == [i \in 1..Len(l.items) |-> l.items[i].v]

\* the number of distinct values of a series
Distinct(xs) == Cardinality({xs[i] : i \in 1..Len(xs)})

\* |a - b| <= tol, exactly
Within(a, b, tol) == DCmp(DAbs(DSub(a, b)), tol) <= 0

FitCalled == args.op = "calculate_linear_equation" /\ pc = "returned"

\* the call was made on at least 2 distinct x values and y[i] = 2 * x[i] + 3
OnLineCase ==
    /\ FitCalled
    /\ Distinct(Floats(args.x)) >= 2
    /\ Floats(args.y) = OnLine(Floats(args.x))

FitTolerance == DPow2(-40)

\* C4, as amended: calculate_linear_equation applied to a list x of at least 2
\* distinct values among 0, 1, 3 and 0.1 and to y with y[i] = 2 * x[i] + 3 returns
\* a slope within 2^-40 of 2 and an intercept within 2^-40 of 3.
C4_NearSlopeIntercept ==
    OnLineCase =>
        /\ err = NoError
        /\ Len(out) = 1
        /\ Within(out[1][1], F(2), FitTolerance)
        /\ Within(out[1][2], F(3), FitTolerance)

\* C4, as stated: on such lists the slope returned is 2 and the intercept is 3.
C4_ExactSlopeIntercept ==
    OnLineCase => (err = NoError /\ out = << <<F(2), F(3)>> >>)

\* a fit of three points on the line returned a slope that is not the float 2.0
C4_Witness ==
    /\ OnLineCase
    /\ Len(args.x.items) = 3
    /\ err = NoError
    /\ out[1][1] # F(2)

\* C5, as stated: calculate_linear_equation applied to two equal-length numeric
\* lists whose x values are all identical fails with DivisionByZero and returns
\* no pair.
C5_IdenticalXRaises ==
    (FitCalled /\ Distinct(Floats(args.x)) = 1) =>
        (err = DivisionByZero /\ out = <<>>)

---------------------------------------------------------------------------
(* Properties of the validation                                            *)

CleanCalled == args.op = "clean_two_lsts" /\ pc = "returned"

\* the element can be made a number: a float, an int, or a str that reads as one
Coercible(i) == i.t \in {"float", "int"} \/ (i.t = "str" /\ ParseFloat(i.v).ok)

\* C6, as stated: clean_two_lsts applied to two lists of equal non-zero length, one
\* of which holds an element that cannot be made a number, fails with
\* NonNumericValue and returns nothing.
C6_NonNumericRaises ==
    ( /\ CleanCalled
      /\ args.a_list.t = "list" /\ args.b_list.t = "list"
      /\ Len(args.a_list.items) = Len(args.b_list.items)
      /\ Len(args.a_list.items) > 0
      /\ \/ \E n \in 1..Len(args.a_list.items) : ~Coercible(args.a_list.items[n])
         \/ \E n \in 1..Len(args.b_list.items) : ~Coercible(args.b_list.items[n]) )
    => (err = NonNumericValue /\ out = <<>>)

---------------------------------------------------------------------------
(* Properties of the back-calculation                                      *)

ConcCalled == args.op = "final_conc" /\ pc = "returned"

\* the exact sum of the first n of the dyadic numbers f
RECURSIVE DSum(_, _)
DSum(f, n) == IF n = 0 THEN DZero ELSE DAdd(DSum(f, n - 1), f[n])

ConcTolerance == DPow2(-45)

\* C7: for a fit (slope, intercept), dilutions d and readings s of one length
\* N >= 1, the back-calculation fails with DivisionByZero when the slope is 0;
\* otherwise it returns the floating-point value of
\* (d[0] * ((s[0] - intercept) / slope) + ...) / N, summed from 0 in order, which
\* is the mean of the d[n] * (s[n] - intercept) / slope up to the rounding of
\* the operations: result * slope * N differs from the exact sum of the
\* d[n] * (s[n] - intercept) by at most 2^-45 of the sum of their magnitudes.
\* Slope 1, intercept 5, d = [1, 1], s = [10, 20] give 10.
C7_MeanOfWeighted ==
    ConcCalled =>
        LET a1 == args.fit[1]
            a0 == args.fit[2]
            d  == args.tpl[1]
            s  == args.tpl[2]
            N  == Len(d)
            contribution == [n \in 1..N |-> FMul(d[n], FDiv(FSub(s[n], a0), a1))]
            exact == [n \in 1..N |-> DMul(d[n], DSub(s[n], a0))]
            magnitude == [n \in 1..N |-> DAbs(exact[n])]
        IN  IF IsZero(a1) THEN err = DivisionByZero /\ out = <<>>
            ELSE /\ err = NoError
                 /\ out = << FDiv(sum(contribution), F(N)) >>
                 /\ Within(DMul(DMul(out[1], a1), DInt(N)), DSum(exact, N),
                           DMul(ConcTolerance, DSum(magnitude, N)))
                 /\ (a1 = F(1) /\ a0 = F(5) /\ d = <<F(1), F(1)>> /\ s = <<F(10), F(20)>>)
                       => out = <<F(10)>>

\* the example of C7 was computed and gave 10
C7_Witness ==
    /\ ConcCalled
    /\ args.fit = <<F(1), F(5)>>
    /\ args.tpl = << <<F(1), F(1)>>, <<F(10), F(20)>> >>
    /\ out = <<F(10)>>

---------------------------------------------------------------------------
(* Properties of the main script                                           *)

\* the stages of a complete run, in order
FullRun ==
    << "find_row", "find_row", "find_row", "find_row", "find_row",
       "subtract_blank", "subtract_blank", "calculate_linear_equation",
       "clean_two_lsts", "final_conc", "r_sq", "plot", "print" >>

\* the stages run so far are the first stages of a complete run; a failure is
\* where the run stopped, with nothing reported; the report comes after every
\* stage has run and succeeded
RunInOrder ==
    /\ Len(trace) <= Len(FullRun)
    /\ trace = SubSeq(FullRun, 1, Len(trace))
    /\ err # NoError => (pc = "aborted" /\ report = <<>>)
    /\ pc = "aborted" => (err # NoError /\ report = <<>>)
    /\ report # <<>> =>
          /\ trace = FullRun
          /\ err = NoError
          /\ \A i \in 1..Len(important_rows) : important_rows[i] \in DOMAIN filtered_dic
          /\ slope_intercept_lst # <<>>
          /\ sample_tpl # <<>>
          /\ final_conc # <<>>

\* C8: in a run of main the stages execute in the order five find_row, two
\* subtract_blank, calculate_linear_equation, clean_two_lsts, the
\* back-calculation, then the reporting; a stage that fails ends the run: no
\* step follows it and nothing is reported; the report is emitted only when every
\* stage before it has succeeded.
C8_FailFast ==
    /\ []RunInOrder
    /\ [][pc # "aborted" /\ (err' # NoError => pc' = "aborted")]_vars

\* a run was ended by the back-calculation, all stages before it having run
C8_Witness ==
    /\ pc = "aborted"
    /\ Len(trace) = 10
    /\ trace[10] = "final_conc"
    /\ err = DivisionByZero
    /\ report = <<>>

\* the rows of the sheet named name in the first column
RowsNamed(name) == {r \in 1..Len(sheet) : sheet[r][1] = TextCell(name)}

\* the number of float cells of the row named name
RowLen(name) ==
    Cardinality({c \in 1..RowWidth : sheet[CHOOSE r \in RowsNamed(name) : TRUE][c].t = "float"})

\* the five calls of find_row have succeeded
AllExtracted ==
    /\ Len(trace) >= Len(important_rows)
    /\ \A i \in 1..Len(important_rows) : important_rows[i] \in DOMAIN filtered_dic

\* the exceptions of clean_two_lsts, raised before anything is computed
ValidationErrors ==
    {CleanArguments, EmptyInput, LengthMismatch, NonNumericValue, FloatTypeError}

\* calculate_linear_equation has got past its validation
FitComputed ==
    /\ \E i \in 1..Len(trace) : trace[i] = "calculate_linear_equation"
    /\ ~(trace[Len(trace)] = "calculate_linear_equation" /\ err \in ValidationErrors)

ConcReached == \E i \in 1..Len(trace) : trace[i] = "final_conc"

\* C10: in a run where the five rows were extracted, the fit gets past its
\* validation only if len(Standard Concentration) = len(Mean Standard) *
\* len(Mean Blank), and the back-calculation is reached only if also
\* len(Dilutions) = len(Mean Sample) * len(Mean Blank); when the concentration
\* and standard rows have one length and the blank row more than one value, the
\* run goes no further than the fit, which ends it with LengthMismatch, and no
\* concentration is produced.
C10_LengthConditions ==
    AllExtracted =>
        /\ FitComputed =>
              RowLen(important_rows[2]) = RowLen(important_rows[3]) * RowLen(important_rows[1])
        /\ ConcReached =>
              /\ RowLen(important_rows[2]) = RowLen(important_rows[3]) * RowLen(important_rows[1])
              /\ RowLen(important_rows[4]) = RowLen(important_rows[5]) * RowLen(important_rows[1])
        /\ ( /\ RowLen(important_rows[2]) = RowLen(important_rows[3])
             /\ RowLen(important_rows[1]) > 1 ) =>
              /\ final_conc = <<>>
              /\ report = <<>>
              /\ \/ pc \in {"subtract_blank", "calculate_linear_equation"}
                 \/ /\ pc = "aborted"
                    /\ err = LengthMismatch
                    /\ trace[Len(trace)] = "calculate_linear_equation"

\* a run with two blank values and three standards for three concentrations was
\* ended by the fit with LengthMismatch
C10_Witness ==
    /\ AllExtracted
    /\ RowLen(important_rows[1]) = 2
    /\ RowLen(important_rows[2]) = 3
    /\ RowLen(important_rows[3]) = 3
    /\ pc = "aborted"
    /\ err = LengthMismatch
    /\ final_conc = <<>>
====
